---------------------------- MODULE Spec2Model ----------------------------
(***************************************************************************)
(* Conversation identity resolution (find-or-create by participant set),   *)
(* the participant repository, and the bounded LRU cache of the mock       *)
(* provider back ends of the messaging service.                            *)
(*                                                                         *)
(* Addresses are modelled as the integers 1..NumAddresses; the integer     *)
(* order stands for Python's string order used by sorted().  Rows of the   *)
(* participants table carry their primary key, so that two rows with the   *)
(* same (conversation_id, address) are representable.  Every await on the  *)
(* database session (execute / commit) is one atomic step of a request;    *)
(* requests interleave between those steps.  Request tasks are anonymous:  *)
(* at most NumProcs of them run at a time.                                 *)
(*                                                                         *)
(* The validation of webhook bodies is modelled on JSON values written as  *)
(* <<type, text>>, text being what str() returns.  The pipeline adds the   *)
(* messages table, the provider call of an outbound send and the route of  *)
(* the SMS webhook to the requests above.                                  *)
(***************************************************************************)
EXTENDS Integers, Sequences, FiniteSets, Bags, TLC

\* ----------------------------------------------------------------- bounds
NumAddresses == 3
NumProcs == 2
MaxCalls == 3
MaxRequests == 2
NumKeys == 3
NumValues == 2
MaxSize == 3
MaxEdits == 2
MaxPipeline == 1

Addresses == 1..NumAddresses
None == 0
Keys == 1..NumKeys
Values == 1..NumValues

VARIABLES
    conversations,  \* conversations table: set of conversation ids
    participants,   \* participants table: set of rows
    messages,       \* messages table: set of rows
    tasks,          \* the bag of running tasks: position and locals of each
    history         \* completed calls, in completion order

dbvars == <<conversations, participants, messages, tasks, history>>

VARIABLES
    cache,          \* LRUCache.cache: <<key, value>> pairs, oldest first
    max_size,       \* LRUCache.max_size
    last,           \* the last cache operation: its arguments, what it returned
                    \* and the cache it was applied to
    touched         \* the keys of the cache by their last touch (put or
                    \* successful get), least recently touched first

cachevars == <<cache, max_size, last, touched>>

VARIABLES
    validation      \* a webhook body, and what the validation of its
                    \* service made of it

normvars == <<validation>>

vars == <<conversations, participants, messages, tasks, history,
          cache, max_size, last, touched, validation>>

\* ------------------------------------------------------- pure helpers
\* "email" if "@" in address else "phone"; the addresses from 3 on stand
\* for strings that contain "@"
address_type(address) == IF address >= 3 THEN "email" ELSE "phone"

Range(s) == {s[i] : i \in 1..Len(s)}

InsertSorted(x, s) ==
    LET k == Cardinality({i \in 1..Len(s) : s[i] < x})
    IN SubSeq(s, 1, k) \o <<x>> \o SubSeq(s, k + 1, Len(s))

RECURSIVE sorted(_)
sorted(s) == IF s = <<>> THEN <<>> ELSE InsertSorted(Head(s), sorted(Tail(s)))

\* [p.address for p in conversation.participants], rows taken in key order
RECURSIVE addresses_upto(_, _, _)
addresses_upto(rows, conversation_id, n) ==
    IF n = 0 THEN <<>>
    ELSE LET prev == addresses_upto(rows, conversation_id, n - 1)
             here == {r \in rows : r.id = n /\ r.conversation_id = conversation_id}
         IN IF here = {} THEN prev
            ELSE Append(prev, (CHOOSE r \in here : TRUE).address)

participant_addresses(rows, conversation_id) ==
    addresses_upto(rows, conversation_id, Cardinality(rows))

\* stored participant-address set of a conversation
AddressSet(rows, conversation_id) ==
    {r.address : r \in {x \in rows : x.conversation_id = conversation_id}}

\* ------------------------------------------- ConversationRepository
\* sorted_participants = sorted(participants)
unsorted_participants(request) == request
sorted_participants(request) == sorted(request)

\* conversation_participants == sorted_participants
overlap_match(conversation_participants, wanted) ==
    Range(conversation_participants) \cap Range(wanted) # {}
exact_match(conversation_participants, wanted) ==
    conversation_participants = wanted

\* .where(participants.any(address=participant_address))
conversations_with(rows, participant_address) ==
    {r.conversation_id : r \in {x \in rows : x.address = participant_address}}

\* the conversations one query of get_by_participants accepts
never_matches(rows, request, i) == {}
matches(rows, request, i) ==
    {c \in conversations_with(rows, sorted_participants(request)[i]) :
        exact_match(sorted(participant_addresses(rows, c)),
                    sorted_participants(request))}

\* ------------------------------------------- ParticipantRepository
\* select ... where conversation_id == conversation_id, address == address
no_existing(rows, conversation_id, address) == {}
existing(rows, conversation_id, address) ==
    {r \in rows : r.conversation_id = conversation_id /\ r.address = address}

\* CREATE UNIQUE INDEX idx_unique_participant_conversation
\*     ON participants(conversation_id, address)
no_unique_index(rows, row) == TRUE
idx_unique_participant_conversation(rows, row) ==
    \A r \in rows :
        ~(r.conversation_id = row.conversation_id /\ r.address = row.address)

\* ------------------------------------------------- webhook payloads
\* A JSON value is <<type, text>>; text is what Python's str() makes of it.
Absent == <<"absent", "">>                          \* the key is not in the dict
JsonNull == <<"null", "None">>
Str(s) == <<"str", s>>
Number == <<"int", "123">>
EmptyList == <<"list", "[]">>
MediaList == <<"list", "['https://example.com/image.jpg']">>

py_str(v) == Str(v[2])

truthy(v) ==
    CASE v[1] = "str" -> v[2] # ""
      [] v[1] = "int" -> v[2] # "0"
      [] v[1] = "list" -> v[2] # "[]"
      [] OTHER -> FALSE

isinstance_str(v) == v[1] = "str"

\* "@" in address, for the address strings of the model
EmailStrings == {"a@example.com", "b@example.com", "c@example.com"}

contains_at(s) == s \in EmailStrings

\* str.replace("Z", "+00:00"), for the strings of the model
replace_Z(s) ==
    IF s = "2024-01-01T12:00:00Z" THEN "2024-01-01T12:00:00+00:00" ELSE s

\* the strings datetime.fromisoformat accepts
IsoFormat == {"2024-01-01T12:00:00+00:00", "2024-01-01T12:00:00"}

UnifiedSmsKeys == {"from", "to", "body", "messaging_provider_id",
                   "attachments", "timestamp", "type"}
ProviderSmsKeys == {"From", "To", "Body", "MessageSid", "MediaUrl", "Timestamp"}
ProviderEmailKeys == {"from_email", "to_email", "subject", "content",
                      "html_content", "x_message_id", "timestamp"}
UnifiedEmailKeys == {"from", "to", "body", "xillio_id", "attachments",
                     "timestamp"}
PayloadKeys == UnifiedSmsKeys \cup ProviderSmsKeys \cup ProviderEmailKeys
                   \cup UnifiedEmailKeys \cup {"foo"}

\* webhook_data: the parsed JSON body, a dict or something else
Dict(items) == [type |-> "dict", items |-> items]

EmptyItems == [k \in PayloadKeys |-> Absent]

NotADict == [type |-> "list", items |-> <<>>]

\* key in webhook_data
has(d, key) == d[key] # Absent

\* webhook_data.get(key, default); webhook_data.get(key) defaults to None
get(d, key, default) == IF has(d, key) THEN d[key] ELSE default

NoRecord ==
    [from_address |-> "", to_address |-> "", body |-> "",
     attachments |-> Absent, provider_message_id |-> "", timestamp |-> "",
     provider_type |-> ""]

NoError == "none"

Raise(type, message) ==
    [ok |-> FALSE, type |-> type, message |-> message, record |-> NoRecord]

Return(record) ==
    [ok |-> TRUE, type |-> NoError, message |-> "", record |-> record]

\* attachments: Optional[List[str]] of the pydantic models
ListOfStr == {EmptyList, MediaList}

\* the pydantic constructor: every str field is a str, attachments is
\* None or a list of str, or it raises ValidationError (a ValueError)
WebhookMessageRequest(from_address, to_address, body, attachments, provider_message_id, timestamp, provider_type) ==
    IF attachments \in ListOfStr
    THEN Return([from_address |-> from_address[2], to_address |-> to_address[2],
                 body |-> body[2], attachments |-> attachments,
                 provider_message_id |-> provider_message_id[2],
                 timestamp |-> timestamp, provider_type |-> provider_type[2]])
    ELSE Raise("ValidationError", "attachments: Input should be a valid list")

\* the timestamp of the request: parsed, or the current time when the
\* value is falsy; anything but a str has no replace()
parse_timestamp(timestamp_str) ==
    IF ~truthy(timestamp_str) THEN Return([NoRecord EXCEPT !.timestamp = "now"])
    ELSE IF ~isinstance_str(timestamp_str)
    THEN Raise("AttributeError", "object has no attribute 'replace'")
    ELSE IF replace_Z(timestamp_str[2]) \in IsoFormat
    THEN Return([NoRecord EXCEPT !.timestamp = replace_Z(timestamp_str[2])])
    ELSE Raise("ValueError", "Invalid timestamp format: " \o timestamp_str[2])

missing(v) == ~truthy(v) \/ ~isinstance_str(v)

required_fields_without_body(from_address, to_address, body, provider_message_id) ==
    IF missing(from_address)
    THEN Raise("ValueError", "Missing required field: from_address")
    ELSE IF missing(to_address)
    THEN Raise("ValueError", "Missing required field: to_address")
    ELSE IF missing(provider_message_id)
    THEN Raise("ValueError", "Missing required field: provider_message_id")
    ELSE Return(NoRecord)

\* the required-field checks both services share, in their order
required_fields(from_address, to_address, body, provider_message_id) ==
    IF missing(from_address)
    THEN Raise("ValueError", "Missing required field: from_address")
    ELSE IF missing(to_address)
    THEN Raise("ValueError", "Missing required field: to_address")
    ELSE IF missing(body)
    THEN Raise("ValueError", "Missing required field: body")
    ELSE IF missing(provider_message_id)
    THEN Raise("ValueError", "Missing required field: provider_message_id")
    ELSE Return(NoRecord)

sms_checks_timestamp_first(from_address, to_address, body, provider_message_id, attachments, timestamp_str, provider_type) ==
    LET required == required_fields(from_address, to_address, body,
                                    provider_message_id)
        timestamp == parse_timestamp(timestamp_str)
    IN IF ~required.ok THEN required
       ELSE IF ~timestamp.ok THEN timestamp
       ELSE IF missing(provider_type)
       THEN Raise("ValueError", "Missing required field: provider_type")
       ELSE IF provider_type[2] \notin {"sms", "mms"}
       THEN Raise("ValueError", "Invalid provider_type: " \o provider_type[2]
                                    \o ". Must be 'sms' or 'mms'")
       ELSE WebhookMessageRequest(from_address, to_address, body, attachments,
                                  provider_message_id,
                                  timestamp.record.timestamp, provider_type)

sms_checks_any_type(from_address, to_address, body, provider_message_id, attachments, timestamp_str, provider_type) ==
    LET required == required_fields(from_address, to_address, body,
                                    provider_message_id)
        timestamp == parse_timestamp(timestamp_str)
    IN IF ~required.ok THEN required
       ELSE IF missing(provider_type)
       THEN Raise("ValueError", "Missing required field: provider_type")
       ELSE IF ~timestamp.ok THEN timestamp
       ELSE WebhookMessageRequest(from_address, to_address, body, attachments,
                                  provider_message_id,
                                  timestamp.record.timestamp, provider_type)

\* ReceiveSmsMmsWebhookService._validate_webhook_payload after the
\* extraction of either shape
sms_checks(from_address, to_address, body, provider_message_id, attachments, timestamp_str, provider_type) ==
    LET required == required_fields(from_address, to_address, body,
                                    provider_message_id)
        timestamp == parse_timestamp(timestamp_str)
    IN IF ~required.ok THEN required
       ELSE IF missing(provider_type)
       THEN Raise("ValueError", "Missing required field: provider_type")
       ELSE IF provider_type[2] \notin {"sms", "mms"}
       THEN Raise("ValueError", "Invalid provider_type: " \o provider_type[2]
                                    \o ". Must be 'sms' or 'mms'")
       ELSE IF ~timestamp.ok THEN timestamp
       ELSE WebhookMessageRequest(from_address, to_address, body, attachments,
                                  provider_message_id,
                                  timestamp.record.timestamp, provider_type)

or_empty_list(v) == IF truthy(v) THEN v ELSE EmptyList

sms_shape_provider_first(d) ==
    IF has(d, "From") THEN "provider"
    ELSE IF has(d, "from") THEN "unified"
    ELSE "none"

\* the branch the SMS service takes: the unified shape, the provider
\* shape, or neither
sms_shape(d) ==
    IF has(d, "from") THEN "unified"
    ELSE IF has(d, "From") THEN "provider"
    ELSE "none"

sms_validate_webhook_payload(webhook_data) ==
    LET d == webhook_data.items
    IN IF webhook_data.type # "dict"
       THEN Raise("ValueError", "Webhook payload must be a dictionary")
       ELSE IF sms_shape(d) = "unified"
       THEN sms_checks(py_str(get(d, "from", Str(""))),
                       py_str(get(d, "to", Str(""))),
                       py_str(get(d, "body", Str(""))),
                       py_str(get(d, "messaging_provider_id", Str(""))),
                       or_empty_list(get(d, "attachments", EmptyList)),
                       get(d, "timestamp", JsonNull),
                       py_str(get(d, "type", Str(""))))
       ELSE IF sms_shape(d) = "provider"
       THEN LET attachments == or_empty_list(get(d, "MediaUrl", EmptyList))
            IN sms_checks(py_str(get(d, "From", Str(""))),
                          py_str(get(d, "To", Str(""))),
                          py_str(get(d, "Body", Str(""))),
                          py_str(get(d, "MessageSid", Str(""))),
                          attachments,
                          get(d, "Timestamp", JsonNull),
                          IF truthy(attachments) THEN Str("mms") ELSE Str("sms"))
       ELSE Raise("ValueError", "Invalid webhook format: missing required fields")

\* ReceiveEmailWebhookService._validate_webhook_payload after the
\* extraction of either shape
email_checks(from_address, to_address, body, provider_message_id, attachments, timestamp_str) ==
    LET required == required_fields(from_address, to_address, body,
                                    provider_message_id)
        timestamp == parse_timestamp(timestamp_str)
    IN IF ~required.ok THEN required
       ELSE IF ~contains_at(from_address[2])
       THEN Raise("ValueError", "Invalid from_address format: " \o from_address[2])
       ELSE IF ~contains_at(to_address[2])
       THEN Raise("ValueError", "Invalid to_address format: " \o to_address[2])
       ELSE IF ~timestamp.ok THEN timestamp
       ELSE WebhookMessageRequest(from_address, to_address, body, attachments,
                                  provider_message_id,
                                  timestamp.record.timestamp, Str("email"))

\* body of the provider shape: the HTML content if there is any, else the
\* plain content, behind the subject if there is one
email_body(subject, content, html_content) ==
    LET body == IF truthy(html_content) THEN html_content ELSE content
    IN IF truthy(subject)
       THEN Str("Subject: " \o subject[2] \o "\n\n" \o body[2])
       ELSE body

email_shape_always_provider(d) ==
    IF has(d, "from") THEN "unified" ELSE "provider"

\* the branch the email service takes
email_shape(d) ==
    IF has(d, "from_email") THEN "provider"
    ELSE IF has(d, "from") THEN "unified"
    ELSE "none"

email_validate_webhook_payload(webhook_data) ==
    LET d == webhook_data.items
    IN IF webhook_data.type # "dict"
       THEN Raise("ValueError", "Webhook payload must be a dictionary")
       ELSE IF email_shape(d) = "provider"
       THEN email_checks(py_str(get(d, "from_email", Str(""))),
                         py_str(get(d, "to_email", Str(""))),
                         email_body(py_str(get(d, "subject", Str(""))),
                                    py_str(get(d, "content", Str(""))),
                                    get(d, "html_content", JsonNull)),
                         py_str(get(d, "x_message_id", Str(""))),
                         EmptyList,
                         get(d, "timestamp", JsonNull))
       ELSE IF email_shape(d) = "unified"
       THEN email_checks(py_str(get(d, "from", Str(""))),
                         py_str(get(d, "to", Str(""))),
                         py_str(get(d, "body", Str(""))),
                         py_str(get(d, "xillio_id", Str(""))),
                         or_empty_list(get(d, "attachments", EmptyList)),
                         get(d, "timestamp", JsonNull))
       ELSE Raise("ValueError", "Invalid webhook format: missing required fields")

validate_webhook_payload(channel, webhook_data) ==
    IF channel = "email" THEN email_validate_webhook_payload(webhook_data)
    ELSE sms_validate_webhook_payload(webhook_data)

\* ---------------------------------------------- payloads under check
\* the values a sender may put under a key
KeyValues(key) ==
    CASE key \in {"from", "to", "From", "To", "from_email", "to_email"} ->
            {Absent, JsonNull, Str(""), Str("+15550001"), Str("a@example.com")}
      [] key \in {"body", "Body", "content", "subject", "html_content"} ->
            {Absent, JsonNull, Str(""), Str("hello"), Number}
      [] key \in {"messaging_provider_id", "MessageSid", "x_message_id",
                  "xillio_id"} ->
            {Absent, JsonNull, Str(""), Str("msg-1")}
      [] key = "type" ->
            {Absent, JsonNull, Str(""), Str("sms"), Str("mms"), Str("fax")}
      [] key \in {"timestamp", "Timestamp"} ->
            {Absent, JsonNull, Str(""), Str("2024-01-01T12:00:00Z"),
             Str("not-a-date"), Number}
      [] key \in {"attachments", "MediaUrl"} ->
            {Absent, JsonNull, EmptyList, MediaList, Str("hello")}
      [] OTHER -> {Absent, Str("bar")}

\* a well-formed payload of each shape
UnifiedSms ==
    [k \in PayloadKeys |->
        CASE k = "from" -> Str("+15550001")
          [] k = "to" -> Str("+15550001")
          [] k = "body" -> Str("hello")
          [] k = "messaging_provider_id" -> Str("msg-1")
          [] k = "timestamp" -> Str("2024-01-01T12:00:00Z")
          [] k = "type" -> Str("sms")
          [] OTHER -> Absent]

ProviderSms ==
    [k \in PayloadKeys |->
        CASE k = "From" -> Str("+15550001")
          [] k = "To" -> Str("+15550001")
          [] k = "Body" -> Str("hello")
          [] k = "MessageSid" -> Str("msg-1")
          [] OTHER -> Absent]

ProviderEmail ==
    [k \in PayloadKeys |->
        CASE k = "from_email" -> Str("a@example.com")
          [] k = "to_email" -> Str("a@example.com")
          [] k = "subject" -> Str("hello")
          [] k = "content" -> Str("hello")
          [] k = "x_message_id" -> Str("msg-1")
          [] OTHER -> Absent]

UnifiedEmail ==
    [k \in PayloadKeys |->
        CASE k = "from" -> Str("a@example.com")
          [] k = "to" -> Str("a@example.com")
          [] k = "body" -> Str("hello")
          [] k = "xillio_id" -> Str("msg-1")
          [] OTHER -> Absent]

Merge(a, b) == [k \in PayloadKeys |-> IF has(b, k) THEN b[k] ELSE a[k]]

ChannelKeys(channel) ==
    IF channel = "email"
    THEN ProviderEmailKeys \cup UnifiedEmailKeys \cup {"foo"}
    ELSE UnifiedSmsKeys \cup ProviderSmsKeys \cup {"foo"}

BasePayloads(channel) ==
    IF channel = "email"
    THEN {EmptyItems, ProviderEmail, UnifiedEmail, Merge(ProviderEmail, UnifiedEmail)}
    ELSE {EmptyItems, UnifiedSms, ProviderSms, Merge(UnifiedSms, ProviderSms)}

Channels == {"sms", "email"}

\* the single changes of a payload of the channel: one key set to a value
Edits(channel) ==
    UNION {{<<k, v>> : v \in KeyValues(k)} : k \in ChannelKeys(channel)}

\* the payload after the changes were applied in their order
Apply(items, edits) ==
    [k \in PayloadKeys |->
        LET hits == {i \in DOMAIN edits : edits[i][1] = k}
        IN IF hits = {} THEN items[k]
           ELSE edits[CHOOSE i \in hits : \A j \in hits : j <= i][2]]

NoValidation ==
    [channel |-> "none", webhook_data |-> NotADict, called |-> FALSE,
     result |-> Raise(NoError, "")]

NormUnused == validation = NoValidation

Arrives(channel, webhook_data) ==
    validation = [channel |-> channel, webhook_data |-> webhook_data,
                  called |-> FALSE, result |-> Raise(NoError, "")]

\* a webhook body arrives at the service of its channel: a well-formed
\* payload of a shape, or of both, or the empty dict, changed in at most
\* MaxEdits keys; or a body that is no dict
NormInit ==
    \E channel \in Channels :
        \/ Arrives(channel, NotADict)
        \/ \E items \in BasePayloads(channel) :
              \E edits \in [1..MaxEdits -> Edits(channel)] :
                  Arrives(channel, Dict(Apply(items, edits)))

ValidateWebhookPayload ==
    /\ ~validation.called
    /\ validation' =
          [validation EXCEPT
              !.called = TRUE,
              !.result = validate_webhook_payload(validation.channel,
                                                  validation.webhook_data)]
    /\ UNCHANGED <<dbvars, cachevars>>

\* ------------------------------------------------------------ tasks
\* the request of a pipeline task: the body of a webhook and the record
\* its validation returned, or a SendMessageRequest
NoRequest ==
    [webhook_data |-> NotADict, from_address |-> "", to_address |-> "",
     attachments |-> EmptyList, provider_type |-> "",
     provider_message_id |-> "", endpoint |-> ""]

Exception(type, message) == [type |-> type, message |-> message]

NoException == Exception(NoError, "")

\* the provider was not called, or has not answered
NoResponse == [provider |-> "", error |-> NoError, status |-> Absent]

\* a request task at the first query of get_by_participants, or a direct
\* add_participant call at its lookup
NewTask(op, pc, participant_list, conversation_id) ==
    [pc |-> pc, op |-> op, participants |-> participant_list, i |-> 1,
     conversation |-> conversation_id, created |-> FALSE,
     participant |-> None, wrote |-> 0, started |-> Len(history),
     request |-> NoRequest, raised |-> NoException, calls |-> 0,
     provider_response |-> NoResponse, message |-> None, steps |-> <<>>]

Running == BagToSet(tasks)

InFlight == BagCardinality(tasks)

Others(t) == tasks (-) SetToBag({t})

\* the task suspends at its next await
Continue(rest, t) ==
    /\ tasks' = rest (+) SetToBag({t})
    /\ UNCHANGED history

Http(status_code, detail) == [status_code |-> status_code, detail |-> detail]

\* the exception classes that are ValueError or derive from it
ValueErrors == {"ValueError", "ValidationError"}

\* receive_sms_webhook: what the route answers to the outcome of
\* process_webhook
receive_sms_webhook(raised, error) ==
    IF ~error THEN Http(200, "")
    ELSE IF raised.type \in ValueErrors THEN Http(400, raised.message)
    ELSE Http(500, "Internal server error")

\* a call completes: its outcome is appended to the log, the task is gone
Complete(rest, t, error) ==
    /\ history' = Append(history,
            [op |-> t.op, participants |-> t.participants,
             conversation |-> t.conversation, created |-> t.created,
             participant |-> t.participant, wrote |-> t.wrote,
             started |-> t.started, error |-> error,
             request |-> t.request, raised |-> t.raised, calls |-> t.calls,
             provider_response |-> t.provider_response,
             message |-> t.message, steps |-> t.steps,
             response |-> IF t.op = "webhook"
                          THEN receive_sms_webhook(t.raised, error)
                          ELSE Http(0, "")])
    /\ tasks' = rest

persist_after_resolve(op) ==
    IF op = "send" THEN "create_message" ELSE "create_inbound_message"

\* what a service awaits once _find_or_create_conversation returned:
\* send_message the provider, process_webhook the message repository
after_resolve(op) ==
    IF op = "send" THEN "send_message" ELSE "create_inbound_message"

\* find-or-create (or a direct add_participant) returns to its caller
Resolved(rest, t) ==
    IF t.op \in {"find_or_create", "add_participant"}
    THEN Complete(rest, t, FALSE)
    ELSE Continue(rest, [t EXCEPT !.pc = after_resolve(t.op),
                                  !.steps = Append(t.steps, "resolve")])

AfterAdd_returns_early(rest, t) == Resolved(rest, t)

\* after one add_participant returned: the next address of the loop, or
\* the return of the call
AfterAdd(rest, t) ==
    IF t.op # "add_participant" /\ t.i < Len(t.participants)
    THEN Continue(rest, [t EXCEPT !.i = t.i + 1, !.pc = "add_participant"])
    ELSE Resolved(rest, t)

\* one iteration of the loop of get_by_participants: one query, then the
\* comparison of every candidate; the result order of the query is not
\* specified, so any exact match may be the first
Query(rest, t) ==
    LET found == matches(participants, t.participants, t.i)
    IN /\ IF found # {}
          THEN \E c \in found :
                  Resolved(rest, [t EXCEPT !.conversation = c])
          ELSE Continue(rest, IF t.i < Len(t.participants)
                              THEN [t EXCEPT !.i = t.i + 1]
                              ELSE [t EXCEPT !.pc = "create_empty"])
       /\ UNCHANGED <<conversations, participants>>
       /\ UNCHANGED <<messages, cachevars, normvars>>

\* add_participant, first half: the lookup of an existing row
Lookup(rest, t) ==
    LET rows == existing(participants, t.conversation, t.participants[t.i])
    IN /\ IF Cardinality(rows) > 1
          THEN Complete(rest,                  \* scalar_one_or_none raises
                        [t EXCEPT !.raised = Exception("MultipleResultsFound", "")],
                        TRUE)
          ELSE IF rows # {}
          THEN AfterAdd(rest, [t EXCEPT !.participant =
                                            (CHOOSE r \in rows : TRUE).id])
          ELSE Continue(rest, [t EXCEPT !.pc = "create"])
       /\ UNCHANGED <<conversations, participants>>
       /\ UNCHANGED <<messages, cachevars, normvars>>

DbInit ==
    /\ conversations = {}
    /\ participants = {}
    /\ messages = {}
    /\ tasks = EmptyBag
    /\ history = <<>>

\* _find_or_create_conversation([request.from_address, request.to_address])
\* up to the first query of get_by_participants
StartFindOrCreate(from_address, to_address) ==
    /\ InFlight < NumProcs
    /\ Query(tasks, NewTask("find_or_create", "get_by_participants",
                            <<from_address, to_address>>, None))

\* the next query of get_by_participants
GetByParticipants(t) ==
    /\ t.pc = "get_by_participants"
    /\ Query(Others(t), t)

\* create_empty: a conversation with a fresh id and no participants
CreateEmpty(t) ==
    LET id == Cardinality(conversations) + 1
    IN /\ t.pc = "create_empty"
       /\ conversations' = conversations \cup {id}
       /\ Continue(Others(t), [t EXCEPT !.pc = "add_participant",
                                        !.conversation = id,
                                        !.created = TRUE, !.i = 1])
       /\ UNCHANGED participants
       /\ UNCHANGED <<messages, cachevars, normvars>>

\* add_participant of the loop of find-or-create, up to its lookup
AddParticipant(t) ==
    /\ t.pc = "add_participant"
    /\ Lookup(Others(t), t)

\* add_participant, second half: BaseRepository.create of the new row
CreateParticipant(t) ==
    LET row == [id |-> Cardinality(participants) + 1,
                conversation_id |-> t.conversation,
                address |-> t.participants[t.i],
                address_type |-> address_type(t.participants[t.i])]
    IN /\ t.pc = "create"
       /\ IF idx_unique_participant_conversation(participants, row)
          THEN /\ participants' = participants \cup {row}
               /\ AfterAdd(Others(t), [t EXCEPT !.participant = row.id,
                                                !.wrote = t.wrote + 1])
          ELSE /\ UNCHANGED participants      \* IntegrityError propagates
               /\ Complete(Others(t),
                           [t EXCEPT !.raised = Exception("IntegrityError", "")],
                           TRUE)
       /\ UNCHANGED conversations
       /\ UNCHANGED <<messages, cachevars, normvars>>

\* a direct call of ParticipantRepository.add_participant on a stored
\* conversation, up to its lookup
StartAddParticipant(conversation_id, address) ==
    /\ InFlight < NumProcs
    /\ conversation_id \in conversations
    /\ Lookup(tasks, NewTask("add_participant", "add_participant",
                             <<address>>, conversation_id))

\* ------------------------------------------------------------ pipeline
\* the address strings behind the integers of Addresses, in string order
AddressStrings ==
    <<"+15550001", "+15550002", "a@example.com", "b@example.com",
      "c@example.com">>

AddressString(address) == AddressStrings[address]

AddressOf(s) ==
    IF \E a \in DOMAIN AddressStrings : AddressStrings[a] = s
    THEN CHOOSE a \in DOMAIN AddressStrings : AddressStrings[a] = s
    ELSE None

process_webhook_never_raises(result) == FALSE

\* process_webhook awaits nothing before _validate_webhook_payload
\* returned: its exception leaves the method at once
process_webhook_raises(result) == ~result.ok

\* POST /api/webhooks/sms: receive_sms_webhook and process_webhook up to
\* the first query of get_by_participants
ReceiveSmsWebhook(webhook_data) ==
    LET result == sms_validate_webhook_payload(webhook_data)
        record == result.record
        t == [NewTask("webhook", "get_by_participants",
                      <<AddressOf(record.from_address),
                        AddressOf(record.to_address)>>, None)
                EXCEPT !.request =
                          [webhook_data |-> webhook_data,
                           from_address |-> record.from_address,
                           to_address |-> record.to_address,
                           attachments |-> or_empty_list(record.attachments),
                           provider_type |-> record.provider_type,
                           provider_message_id |-> record.provider_message_id,
                           endpoint |-> "/api/webhooks/sms"],
                       !.steps = <<"validate">>]
    IN /\ InFlight < NumProcs
       /\ IF process_webhook_raises(result)
          THEN /\ Complete(tasks,
                           [t EXCEPT !.raised = Exception(result.type,
                                                          result.message)],
                           TRUE)
               /\ UNCHANGED <<conversations, participants, messages>>
               /\ UNCHANGED <<cachevars, normvars>>
          ELSE Query(tasks, t)

get_provider_by_sender(request) ==
    IF contains_at(request.from_address) THEN "email" ELSE "sms"

\* _get_provider_for_request
get_provider_for_request(request) ==
    IF contains_at(request.to_address) THEN "email" ELSE "sms"

\* the routes of the messages router: send_sms and send_email
SendEndpoints == {"/api/messages/sms", "/api/messages/email"}

\* attachments: Optional[List[str]] of a SendMessageRequest
SendAttachments == {JsonNull, EmptyList, MediaList}

\* send_sms or send_email, and SendMessageService.send_message up to the
\* first query of get_by_participants
SendMessage(endpoint, from_address, to_address, attachments) ==
    /\ InFlight < NumProcs
    /\ Query(tasks,
             [NewTask("send", "get_by_participants",
                      <<from_address, to_address>>, None)
                EXCEPT !.request =
                          [NoRequest EXCEPT
                              !.endpoint = endpoint,
                              !.from_address = AddressString(from_address),
                              !.to_address = AddressString(to_address),
                              !.attachments = attachments]])

\* what the provider may answer to one POST: an HTTP error status, a
\* failed connection, or a JSON body with or without a status
ProviderErrors == {"HTTPStatusError 429", "HTTPStatusError 500", "ConnectError"}

ProviderStatuses(provider) ==
    IF provider = "email"
    THEN {Str("pending"), Str("processed"), Str("dropped"), Str("deferred"),
          Str("bounce"), Str("delivered"), Str("blocked"), Str("accepted"),
          Str("sent"), Str("failed"), Absent}
    ELSE {Str("queued"), Str("sending"), Str("sent"), Str("delivered"),
          Str("undelivered"), Str("failed"), Str("accepted"), Str("pending"),
          Str("bounce"), JsonNull, Number, Absent}

\* the outcomes of one call of the client of the provider
ProviderOutcomes(provider) ==
    {[provider |-> provider, error |-> e, status |-> Absent] :
        e \in ProviderErrors} \cup
    {[provider |-> provider, error |-> NoError, status |-> s] :
        s \in ProviderStatuses(provider)}

\* SmsProviderClient.extract_status
sms_extract_status(response_data) ==
    LET status == py_str(IF response_data.status = Absent THEN Str("unknown")
                         ELSE response_data.status)[2]
    IN CASE status \in {"queued", "sending"} -> "pending"
         [] status = "sent" -> "sent"
         [] status = "delivered" -> "delivered"
         [] status \in {"undelivered", "failed"} -> "failed"
         [] OTHER -> "unknown"

email_extract_status_deferred_failed(response_data) ==
    LET status == py_str(IF response_data.status = Absent THEN Str("unknown")
                         ELSE response_data.status)[2]
    IN CASE status = "pending" -> "pending"
         [] status = "processed" -> "sent"
         [] status \in {"dropped", "deferred", "bounce", "blocked"} -> "failed"
         [] status = "delivered" -> "delivered"
         [] OTHER -> "unknown"

\* EmailProviderClient.extract_status
email_extract_status(response_data) ==
    LET status == py_str(IF response_data.status = Absent THEN Str("unknown")
                         ELSE response_data.status)[2]
    IN CASE status \in {"pending", "deferred"} -> "pending"
         [] status = "processed" -> "sent"
         [] status \in {"dropped", "bounce", "blocked"} -> "failed"
         [] status = "delivered" -> "delivered"
         [] OTHER -> "unknown"

extract_status(provider, response_data) ==
    IF provider = "email" THEN email_extract_status(response_data)
    ELSE sms_extract_status(response_data)

\* get_provider_type of the two clients
get_provider_type(provider, request) ==
    IF provider = "email" THEN "email"
    ELSE IF truthy(request.attachments) THEN "mms" ELSE "sms"

retry_after_provider_error(response) == "retry"

\* send_message after the provider call raised: _handle_provider_error
\* does nothing for any status, then the exception is raised again
after_provider_error(response) == "raise"

\* the outcomes the requests of a run are answered with: every one, or
\* a failed connection, a status the tables know, and none
SomeOutcomes(provider) ==
    {o \in ProviderOutcomes(provider) :
        /\ o.error \in {NoError, "ConnectError"}
        /\ o.status \in {Absent, Str("delivered")}}

\* provider.send_message(request): one POST to the provider, which
\* answers with response
ProviderSend(t, response) ==
    /\ t.pc = "send_message"
    /\ response.provider = get_provider_for_request(t.request)
    /\ IF response.error # NoError
       THEN IF after_provider_error(response) = "raise"
            THEN Complete(Others(t),
                          [t EXCEPT !.calls = t.calls + 1,
                                    !.provider_response = response,
                                    !.raised = Exception(response.error, "")],
                          TRUE)
            ELSE Continue(Others(t), [t EXCEPT !.calls = t.calls + 1])
       ELSE Continue(Others(t),
                     [t EXCEPT !.calls = t.calls + 1,
                               !.provider_response = response,
                               !.pc = "create_message",
                               !.steps = t.steps \o <<"send", "extract">>])
    /\ UNCHANGED <<conversations, participants, messages>>
    /\ UNCHANGED <<cachevars, normvars>>

MessageStatuses == {"pending", "sent", "delivered", "failed"}

no_messages_check(row) == TRUE

\* the CHECK constraints of the messages table
messages_check(row) ==
    /\ row.provider_type \in {"sms", "mms", "email"}
    /\ row.direction \in {"inbound", "outbound"}
    /\ row.status \in MessageStatuses

create_not_committed(rows, row) == rows

\* BaseRepository.create: add and commit
create(rows, row) == rows \cup {row}

\* the MessageResponse send_message builds from the provider response
outbound_message(t) ==
    LET provider == get_provider_for_request(t.request)
    IN [id |-> Cardinality(messages) + 1,
        conversation_id |-> t.conversation,
        provider_type |-> get_provider_type(provider, t.request),
        from_address |-> t.request.from_address,
        to_address |-> t.request.to_address,
        direction |-> "outbound",
        status |-> extract_status(provider, t.provider_response)]

\* the row of an inbound message
inbound_message(t) ==
    [id |-> Cardinality(messages) + 1,
     conversation_id |-> t.conversation,
     provider_type |-> t.request.provider_type,
     from_address |-> t.request.from_address,
     to_address |-> t.request.to_address,
     direction |-> "inbound",
     status |-> "delivered"]

\* the insert of a message row, the last await of both services: the
\* response is built from what the insert returned
Persist(t, row) ==
    IF messages_check(row)
    THEN /\ messages' = create(messages, row)
         /\ Complete(Others(t),
                     [t EXCEPT !.message = row.id,
                               !.steps = t.steps \o <<"persist", "respond">>],
                     FALSE)
    ELSE /\ UNCHANGED messages                \* IntegrityError propagates
         /\ Complete(Others(t),
                     [t EXCEPT !.raised = Exception("IntegrityError", "")],
                     TRUE)

\* message_repo.create(message_response) of send_message
CreateMessage(t) ==
    /\ t.pc = "create_message"
    /\ Persist(t, outbound_message(t))
    /\ UNCHANGED <<conversations, participants>>
    /\ UNCHANGED <<cachevars, normvars>>

\* message_repo.create_inbound_message(conversation_id, request) of
\* process_webhook
CreateInboundMessage(t) ==
    /\ t.pc = "create_inbound_message"
    /\ Persist(t, inbound_message(t))
    /\ UNCHANGED <<conversations, participants>>
    /\ UNCHANGED <<cachevars, normvars>>

\* the awaits of find-or-create on the database session: the execute of
\* a select, the commit of an insert
DatabaseAwaits ==
    {"get_by_participants", "create_empty", "add_participant", "create"}

storage_error_retried(t) == [t EXCEPT !.i = 1]

\* an exception of the session is caught nowhere in the services: it
\* leaves the request
storage_error(t) == [t EXCEPT !.pc = "raise"]

\* the await of the task on the database raises: the statement has no
\* effect
StorageFailure(t) ==
    LET failed == storage_error([t EXCEPT !.raised =
                                    Exception("SQLAlchemyError", "")])
    IN /\ t.pc \in DatabaseAwaits
       /\ IF failed.pc = "raise"
          THEN Complete(Others(t), failed, TRUE)
          ELSE Continue(Others(t), failed)
       /\ UNCHANGED <<conversations, participants, messages>>
       /\ UNCHANGED <<cachevars, normvars>>

\* the webhook bodies of the pipeline: a well-formed body of either shape
\* from one address to another, or a unified body with one key changed
UnifiedSmsOf(from_address, to_address) ==
    [UnifiedSms EXCEPT !["from"] = Str(AddressString(from_address)),
                       !["to"] = Str(AddressString(to_address))]

ProviderSmsOf(from_address, to_address) ==
    [ProviderSms EXCEPT !["From"] = Str(AddressString(from_address)),
                        !["To"] = Str(AddressString(to_address))]

WebhookEdits ==
    {<<"foo", Str("bar")>>, <<"timestamp", Str("not-a-date")>>,
     <<"timestamp", Number>>, <<"body", Absent>>, <<"type", Str("fax")>>,
     <<"attachments", Str("hello")>>, <<"from", Absent>>}

WebhookBodies ==
    {Dict(UnifiedSmsOf(a, b)) : a \in Addresses, b \in Addresses}
    \cup {Dict(ProviderSmsOf(a, b)) : a \in Addresses, b \in Addresses}
    \cup {Dict(Apply(UnifiedSms, <<e>>)) : e \in WebhookEdits}

\* ---------------------------------------------------------- LRUCache
KeysOf(c) == {c[i][1] : i \in 1..Len(c)}

IndexOf(c, key) == CHOOSE i \in 1..Len(c) : c[i][1] = key

\* self.cache[key]
value_of(c, key) == c[IndexOf(c, key)][2]

\* OrderedDict.move_to_end(key)
not_moved(c, key) == c
move_to_end(c, key) ==
    LET i == IndexOf(c, key)
    IN SubSeq(c, 1, i - 1) \o SubSeq(c, i + 1, Len(c)) \o <<c[i]>>

\* OrderedDict.popitem(last=False)
popitem_first(c) == Tail(c)

\* LRUCache.__setitem__: the cache after cache[key] = value
setitem_never_evicts(c, size, key, value) ==
    IF key \in KeysOf(c) THEN move_to_end(c, key)
    ELSE Append(c, <<key, value>>)
setitem(c, size, key, value) ==
    IF key \in KeysOf(c)
    THEN move_to_end(c, key)
    ELSE LET added == Append(c, <<key, value>>)
         IN IF Len(added) > size THEN popitem_first(added) ELSE added

\* LRUCache.__getitem__: the cache after a successful cache[key]
getitem_no_touch(c, key) == c
getitem(c, key) == move_to_end(c, key)

\* LRUCache.__contains__: the cache after key in cache
contains_touches(c, key) == IF key \in KeysOf(c) THEN move_to_end(c, key) ELSE c
contains(c, key) == c

\* a put or a successful get of key is its most recent touch; the
\* touches of the keys that are gone are forgotten
Touch(order, key, kept) ==
    SelectSeq(SelectSeq(order, LAMBDA k : k # key) \o <<key>>,
              LAMBDA k : k \in kept)

NoOp == [op |-> "none", key |-> None, value |-> None, ok |-> TRUE,
         before |-> <<>>]

\* the cache is not in use: the state of the cache in the database runs
CacheUnused ==
    /\ cache = <<>>
    /\ max_size = MaxSize
    /\ last = NoOp
    /\ touched = <<>>

\* LRUCache(max_size=CACHE_SIZE)
CacheInit ==
    /\ cache = <<>>
    /\ max_size \in 0..MaxSize
    /\ last = NoOp
    /\ touched = <<>>

\* cache[key] = value
Put(key, value) ==
    /\ cache' = setitem(cache, max_size, key, value)
    /\ last' = [op |-> "put", key |-> key, value |-> value, ok |-> TRUE,
                before |-> cache]
    /\ touched' = Touch(touched, key, KeysOf(cache'))
    /\ UNCHANGED max_size
    /\ UNCHANGED <<dbvars, normvars>>

\* cache[key]: KeyError when absent, else the value, touched
Get(key) ==
    /\ IF key \notin KeysOf(cache)
       THEN /\ last' = [op |-> "get", key |-> key, value |-> None, ok |-> FALSE,
                        before |-> cache]
            /\ UNCHANGED <<cache, touched>>
       ELSE /\ cache' = getitem(cache, key)
            /\ last' = [op |-> "get", key |-> key,
                        value |-> value_of(cache', key), ok |-> TRUE,
                        before |-> cache]
            /\ touched' = Touch(touched, key, KeysOf(cache'))
    /\ UNCHANGED max_size
    /\ UNCHANGED <<dbvars, normvars>>

\* key in cache
Contains(key) ==
    /\ cache' = contains(cache, key)
    /\ last' = [op |-> "contains", key |-> key,
                value |-> IF key \in KeysOf(cache) THEN 1 ELSE 0, ok |-> TRUE,
                before |-> cache]
    /\ UNCHANGED <<max_size, touched>>
    /\ UNCHANGED <<dbvars, normvars>>

\* ---------------------------------------------------- specifications
Init == DbInit /\ CacheUnused /\ NormUnused

\* a request of the pipeline arrives while others may be in flight
Request(from_address, to_address) ==
    /\ Len(history) + InFlight < MaxRequests
    /\ StartFindOrCreate(from_address, to_address)

\* concurrent requests of the pipeline: every request resolves its
\* conversation through find-or-create
Next ==
    \/ \E a \in Addresses, b \in Addresses : Request(a, b)
    \/ \E t \in Running : GetByParticipants(t)
    \/ \E t \in Running : CreateEmpty(t)
    \/ \E t \in Running : AddParticipant(t)
    \/ \E t \in Running : CreateParticipant(t)

Spec == Init /\ [][Next]_vars

\* non-concurrent use: a call starts only when no other call is running
SeqRequest(from_address, to_address) ==
    /\ InFlight = 0
    /\ Len(history) < MaxCalls
    /\ StartFindOrCreate(from_address, to_address)

SeqNext ==
    \/ \E a \in Addresses, b \in Addresses : SeqRequest(a, b)
    \/ \E t \in Running : GetByParticipants(t)
    \/ \E t \in Running : CreateEmpty(t)
    \/ \E t \in Running : AddParticipant(t)
    \/ \E t \in Running : CreateParticipant(t)

SeqSpec == Init /\ [][SeqNext]_vars

\* the repositories under concurrent callers: find-or-create requests and
\* direct add_participant calls.  The database starts as one completed
\* find-or-create([1, 2]) leaves it.
RepoInit ==
    /\ conversations = {1}
    /\ participants =
          {[id |-> a, conversation_id |-> 1, address |-> a,
            address_type |-> address_type(a)] : a \in {1, 2}}
    /\ messages = {}
    /\ tasks = EmptyBag
    /\ history = <<>>
    /\ CacheUnused
    /\ NormUnused

DirectAdd(conversation_id, address) ==
    /\ Len(history) + InFlight < MaxRequests
    /\ StartAddParticipant(conversation_id, address)

RepoNext ==
    \/ \E a \in Addresses, b \in Addresses : Request(a, b)
    \/ \E c \in conversations, a \in Addresses : DirectAdd(c, a)
    \/ \E t \in Running : GetByParticipants(t)
    \/ \E t \in Running : CreateEmpty(t)
    \/ \E t \in Running : AddParticipant(t)
    \/ \E t \in Running : CreateParticipant(t)

RepoSpec == RepoInit /\ [][RepoNext]_vars

\* the cache on its own
CacheSpecInit == DbInit /\ CacheInit /\ NormUnused

CacheNext ==
    \/ \E k \in Keys, v \in Values : Put(k, v)
    \/ \E k \in Keys : Get(k)
    \/ \E k \in Keys : Contains(k)

CacheSpec == CacheSpecInit /\ [][CacheNext]_vars

\* requests of both directions through the pipeline
WebhookRequest(webhook_data) ==
    /\ Len(history) + InFlight < MaxPipeline
    /\ ReceiveSmsWebhook(webhook_data)

SendRequest(endpoint, from_address, to_address, attachments) ==
    /\ Len(history) + InFlight < MaxPipeline
    /\ SendMessage(endpoint, from_address, to_address, attachments)

PipeNext ==
    \/ \E webhook_data \in WebhookBodies : WebhookRequest(webhook_data)
    \/ \E a \in Addresses, b \in Addresses :
          SendRequest("/api/messages/sms", a, b, EmptyList)
    \/ \E t \in Running : GetByParticipants(t)
    \/ \E t \in Running : CreateEmpty(t)
    \/ \E t \in Running : AddParticipant(t)
    \/ \E t \in Running : CreateParticipant(t)
    \/ \E t \in Running, provider \in Channels :
          \E response \in ProviderOutcomes(provider) : ProviderSend(t, response)
    \/ \E t \in Running : CreateMessage(t)
    \/ \E t \in Running : CreateInboundMessage(t)

\* the database as one completed webhook from address 1 to address 2
\* leaves it
StoredMessages ==
    {[id |-> 1, conversation_id |-> 1, provider_type |-> "sms",
      from_address |-> AddressString(1), to_address |-> AddressString(2),
      direction |-> "inbound", status |-> "delivered"]}

PipeInit ==
    /\ conversations = {1}
    /\ participants =
          {[id |-> a, conversation_id |-> 1, address |-> a,
            address_type |-> address_type(a)] : a \in {1, 2}}
    /\ messages = StoredMessages
    /\ tasks = EmptyBag
    /\ history = <<>>
    /\ CacheUnused
    /\ NormUnused

PipeSpec == PipeInit /\ [][PipeNext]_vars

\* outbound requests one after the other, through either route and with
\* or without attachments
OneSend(endpoint, from_address, to_address, attachments) ==
    /\ InFlight = 0
    /\ Len(history) < MaxPipeline
    /\ SendMessage(endpoint, from_address, to_address, attachments)

SendNext ==
    \/ \E endpoint \in SendEndpoints, a \in Addresses, b \in Addresses :
          \E attachments \in SendAttachments :
              OneSend(endpoint, a, b, attachments)
    \/ \E t \in Running : GetByParticipants(t)
    \/ \E t \in Running : CreateEmpty(t)
    \/ \E t \in Running : AddParticipant(t)
    \/ \E t \in Running : CreateParticipant(t)
    \/ \E t \in Running, provider \in Channels :
          \E response \in SomeOutcomes(provider) : ProviderSend(t, response)
    \/ \E t \in Running : CreateMessage(t)

SendSpec == PipeInit /\ [][SendNext]_vars

\* concurrent requests of both directions on an empty database, some of
\* whose awaits on the database fail
RaceWebhook(from_address, to_address) ==
    /\ Len(history) + InFlight < MaxRequests
    /\ ReceiveSmsWebhook(Dict(UnifiedSmsOf(from_address, to_address)))

RaceSend(from_address, to_address) ==
    /\ Len(history) + InFlight < MaxRequests
    /\ SendMessage("/api/messages/sms", from_address, to_address, EmptyList)

\* the requests of the race: one address writing to another, and to
\* itself
RacePairs == {<<1, 2>>, <<1, 1>>}

RaceNext ==
    \/ \E pair \in RacePairs : RaceWebhook(pair[1], pair[2])
    \/ \E pair \in RacePairs : RaceSend(pair[1], pair[2])
    \/ \E t \in Running : GetByParticipants(t)
    \/ \E t \in Running : CreateEmpty(t)
    \/ \E t \in Running : AddParticipant(t)
    \/ \E t \in Running : CreateParticipant(t)
    \/ \E t \in Running, provider \in Channels :
          \E response \in SomeOutcomes(provider) : ProviderSend(t, response)
    \/ \E t \in Running : CreateMessage(t)
    \/ \E t \in Running : CreateInboundMessage(t)
    \/ \E t \in Running : StorageFailure(t)

RaceSpec == Init /\ [][RaceNext]_vars

\* ------------------------------------------ sms provider simulator
\* the handlers of src/providers/sms_provider.py share the module-level
\* cache `messages` and the counter `message_counter`; the event loop runs
\* a coroutine until it awaits, so an action is the code of a handler
\* between two awaits

\* message_counter: generate_message_sid has been called once for every
\* sid that was handed out
message_counter ==
    Cardinality({i \in DOMAIN history : history[i].sid # None})

\* the values of the query parameter simulate_error: absent, "429", "500"
SimulateErrors == {"", "429", "500"}

\* a request that the server has accepted; its handler has not run yet
SimTask(op, message_sid, simulate_error) ==
    [op |-> op, pc |-> "start", message_sid |-> message_sid,
     simulate_error |-> simulate_error, started |-> Len(history),
     checked |-> FALSE]

\* the handler returns or raises: the response is logged, the task is gone
Answer(rest, t, status_code, sid, value) ==
    /\ history' = Append(history,
            [op |-> t.op, message_sid |-> t.message_sid,
             simulate_error |-> t.simulate_error, started |-> t.started,
             checked |-> t.checked, status_code |-> status_code,
             sid |-> sid, value |-> value])
    /\ tasks' = rest

\* POST /messages arrives
SimSendRequest(simulate_error) ==
    /\ Len(history) + InFlight < MaxCalls
    /\ InFlight < NumProcs
    /\ tasks' = tasks (+) SetToBag({SimTask("send_message", None,
                                            simulate_error)})
    /\ UNCHANGED <<conversations, participants, messages, history>>
    /\ UNCHANGED <<cachevars, normvars>>

\* GET /messages/{message_sid} arrives
SimGetRequest(message_sid) ==
    /\ Len(history) + InFlight < MaxCalls
    /\ InFlight < NumProcs
    /\ tasks' = tasks (+) SetToBag({SimTask("get_message", message_sid, "")})
    /\ UNCHANGED <<conversations, participants, messages, history>>
    /\ UNCHANGED <<cachevars, normvars>>

\* send_message: the simulated errors, else a new sid, the message (its
\* dict holds the sid) is stored under it, and a reply may be scheduled
\* as a background task
send_message(t, reply) ==
    /\ t.op = "send_message"
    /\ IF t.simulate_error \in {"429", "500"}
       THEN /\ ~reply
            /\ Answer(Others(t), t,
                      IF t.simulate_error = "429" THEN 429 ELSE 500,
                      None, None)
            /\ UNCHANGED cachevars
       ELSE LET message_sid == message_counter + 1
            IN /\ reply => Len(history) + InFlight < MaxCalls
               /\ cache' = setitem(cache, max_size, message_sid, message_sid)
               /\ last' = [op |-> "put", key |-> message_sid,
                           value |-> message_sid, ok |-> TRUE, before |-> cache]
               /\ touched' = Touch(touched, message_sid, KeysOf(cache'))
               /\ UNCHANGED max_size
               /\ Answer(IF reply
                         THEN Others(t) (+) SetToBag({SimTask(
                                  "simulate_incoming_message", None, "")})
                         ELSE Others(t),
                         t, 200, message_sid, message_sid)
    /\ UNCHANGED <<conversations, participants, messages, normvars>>

\* simulate_incoming_message, once its sleep is over: a new sid, and the
\* webhook of the messaging service is posted
simulate_incoming_message(t) ==
    /\ t.op = "simulate_incoming_message"
    /\ Answer(Others(t), t, 0, message_counter + 1, None)
    /\ UNCHANGED <<conversations, participants, messages>>
    /\ UNCHANGED <<cachevars, normvars>>

\* the statements of get_message after which the coroutine awaits: none
get_message_awaits_after_check == {"check"}
get_message_awaits == {}

\* message_data = messages[message_sid]; return message_data: an
\* unhandled KeyError is answered 500
ReadMessage(rest, t, c) ==
    IF t.message_sid \notin KeysOf(c)
    THEN /\ cache' = c
         /\ last' = [op |-> "get", key |-> t.message_sid, value |-> None,
                     ok |-> FALSE, before |-> c]
         /\ UNCHANGED <<max_size, touched>>
         /\ Answer(rest, t, 500, None, None)
    ELSE /\ cache' = getitem(c, t.message_sid)
         /\ last' = [op |-> "get", key |-> t.message_sid,
                     value |-> value_of(cache', t.message_sid), ok |-> TRUE,
                     before |-> c]
         /\ touched' = Touch(touched, t.message_sid, KeysOf(cache'))
         /\ UNCHANGED max_size
         /\ Answer(rest, t, 200, None, value_of(cache', t.message_sid))

\* get_message: 404 unless message_sid in messages, else the read
get_message(t) ==
    /\ t.op = "get_message"
    /\ IF t.pc = "read"
       THEN ReadMessage(Others(t), t, cache)
       ELSE IF t.message_sid \notin KeysOf(cache)
       THEN /\ cache' = contains(cache, t.message_sid)
            /\ last' = [op |-> "contains", key |-> t.message_sid,
                        value |-> 0, ok |-> TRUE, before |-> cache]
            /\ UNCHANGED <<max_size, touched>>
            /\ Answer(Others(t), t, 404, None, None)
       ELSE IF "check" \in get_message_awaits
       THEN /\ cache' = contains(cache, t.message_sid)
            /\ last' = [op |-> "contains", key |-> t.message_sid,
                        value |-> 1, ok |-> TRUE, before |-> cache]
            /\ UNCHANGED <<max_size, touched>>
            /\ Continue(Others(t), [t EXCEPT !.pc = "read", !.checked = TRUE])
       ELSE ReadMessage(Others(t), [t EXCEPT !.checked = TRUE],
                        contains(cache, t.message_sid))
    /\ UNCHANGED <<conversations, participants, messages, normvars>>

\* concurrent requests to the simulator
SimNext ==
    \/ \E simulate_error \in SimulateErrors : SimSendRequest(simulate_error)
    \/ \E message_sid \in Keys : SimGetRequest(message_sid)
    \/ \E t \in Running, reply \in BOOLEAN : send_message(t, reply)
    \/ \E t \in Running : simulate_incoming_message(t)
    \/ \E t \in Running : get_message(t)

SimSpec == CacheSpecInit /\ [][SimNext]_vars

\* the validation of one webhook body on its own
NormNext == ValidateWebhookPayload

NormSpecInit == DbInit /\ CacheUnused /\ NormInit

NormSpec == NormSpecInit /\ [][NormNext]_vars

\* ------------------------------------------------------------ claims
Calls == 1..Len(history)

Resolves == {i \in Calls : history[i].op = "find_or_create"}

Adds == {i \in Calls : history[i].op = "add_participant"}

\* call j started after call i had completed
InSequence(i, j) == i < j /\ history[j].started >= i

\* C1: after any sequence of non-concurrent find-or-create calls, no two
\* stored conversations have the same participant-address set.
C1_OnePerParticipantSet ==
    InFlight = 0 =>
        \A c1 \in conversations, c2 \in conversations :
            c1 # c2 => AddressSet(participants, c1) # AddressSet(participants, c2)

\* C2: a completed resolve([a,b]) with a # b followed by resolve([b,a])
\* returns the same conversation id, and the second call creates neither
\* a conversation nor a participant.
C2_OrderInsensitive ==
    \A i \in Resolves, j \in Resolves :
        (/\ i < j
         /\ history[i].participants[1] # history[i].participants[2]
         /\ history[j].participants[1] = history[i].participants[2]
         /\ history[j].participants[2] = history[i].participants[1])
        => /\ history[j].conversation = history[i].conversation
           /\ ~history[j].created
           /\ history[j].wrote = 0
           /\ ~history[j].error

C2_Witness ==
    \E i \in Resolves, j \in Resolves :
        /\ j = i + 1
        /\ history[i].created
        /\ history[i].participants[1] < history[i].participants[2]
        /\ history[j].participants =
              <<history[i].participants[2], history[i].participants[1]>>
        /\ history[j].conversation = history[i].conversation

\* C3: resolve returns an already stored conversation only when its stored
\* participant-address set equals the requested set, and calls for
\* different participant sets (such as [a,b] and [a,c], b # c) return
\* different conversation ids.
C3_ExactSetMatch ==
    /\ \A i \in Resolves :
          (~history[i].created /\ ~history[i].error) =>
              /\ history[i].conversation \in conversations
              /\ AddressSet(participants, history[i].conversation)
                     = Range(history[i].participants)
    /\ \A i \in Resolves, j \in Resolves :
          Range(history[i].participants) # Range(history[j].participants)
              => history[i].conversation # history[j].conversation

C3_Witness ==
    \E i \in Resolves, j \in Resolves, k \in Resolves :
        /\ history[i].created
        /\ ~history[j].created
        /\ history[j].conversation = history[i].conversation
        /\ Cardinality(Range(history[i].participants)) = 2
        /\ Cardinality(Range(history[k].participants)) = 2
        /\ Cardinality(Range(history[i].participants)
                           \cap Range(history[k].participants)) = 1
        /\ history[k].conversation # history[i].conversation

\* C4: find-or-create is not atomic: two requests with the same set of two
\* addresses that overlap in time can each create a conversation; two
\* calls create conversations for the same set only if they overlapped.
C4_DuplicatesOnlyFromOverlap ==
    \A i \in Resolves, j \in Resolves :
        (/\ i < j
         /\ history[i].created
         /\ history[j].created
         /\ Range(history[i].participants) = Range(history[j].participants)
         /\ Cardinality(Range(history[i].participants)) = 2)
        => ~InSequence(i, j)

C4_Witness ==
    \E i \in Resolves, j \in Resolves :
        /\ i < j
        /\ history[i].created /\ history[j].created
        /\ ~history[i].error /\ ~history[j].error
        /\ history[i].conversation # history[j].conversation
        /\ Cardinality(Range(history[i].participants)) = 2
        /\ AddressSet(participants, history[i].conversation)
               = Range(history[i].participants)
        /\ AddressSet(participants, history[j].conversation)
               = Range(history[i].participants)

\* C5: add_participant called twice in sequence with the same
\* (conversation_id, address) leaves exactly one row for the pair; the
\* second call writes nothing and returns the participant of the first.
C5_AddParticipantIdempotent ==
    \A i \in Adds, j \in Adds :
        (/\ InSequence(i, j)
         /\ ~history[i].error
         /\ history[j].conversation = history[i].conversation
         /\ history[j].participants = history[i].participants)
        => /\ ~history[j].error
           /\ history[j].wrote = 0
           /\ history[j].participant = history[i].participant
           /\ Cardinality(existing(participants, history[i].conversation,
                                   history[i].participants[1])) = 1

C5_Witness ==
    \E i \in Adds, j \in Adds :
        /\ InSequence(i, j)
        /\ history[i].wrote = 1
        /\ history[j].conversation = history[i].conversation
        /\ history[j].participants = history[i].participants
        /\ history[j].participant = history[i].participant

\* C6: in every reachable state no two stored participants of the same
\* conversation have the same address.
C6_UniqueParticipantAddress ==
    \A r1 \in participants, r2 \in participants :
        (r1.conversation_id = r2.conversation_id /\ r1.address = r2.address)
            => r1 = r2

\* two concurrent add_participant calls for the same pair both passed the
\* lookup; the insert of the second was rejected
C6_Witness ==
    \E i \in Adds, j \in Adds :
        /\ i < j
        /\ ~InSequence(i, j)
        /\ history[j].conversation = history[i].conversation
        /\ history[j].participants = history[i].participants
        /\ history[i].wrote = 1
        /\ history[j].error

\* C7: put(key, value) on a key already in the cache makes the key the
\* most recently touched entry and overwrites its value; the set of keys
\* is unchanged and nothing is evicted.
C7_PutExistingOverwrites ==
    (last.op = "put" /\ last.key \in KeysOf(last.before)) =>
        /\ cache[Len(cache)] = <<last.key, last.value>>
        /\ KeysOf(cache) = KeysOf(last.before)
        /\ Len(cache) = Len(last.before)

\* C8: the cache never holds more than max_size entries, max_size never
\* changes, and a put of a new key removes at most one entry, and only
\* when the cache already held max_size entries.
C8_Bounded ==
    /\ [](/\ Len(cache) <= max_size
          /\ Cardinality(KeysOf(cache)) = Len(cache)
          /\ (last.op = "put" /\ last.key \notin KeysOf(last.before)) =>
                /\ Cardinality(KeysOf(last.before) \ KeysOf(cache)) <= 1
                /\ Len(cache) >= Len(last.before)
                /\ (KeysOf(last.before) \ KeysOf(cache) # {}
                        => Len(last.before) = max_size))
    /\ [][max_size' = max_size]_vars

C8_Witness ==
    /\ last.op = "put"
    /\ last.key \notin KeysOf(last.before)
    /\ max_size >= 2
    /\ Len(last.before) = max_size
    /\ Len(cache) = max_size
    /\ Cardinality(KeysOf(last.before) \ KeysOf(cache)) = 1

\* C9: get(key) on an absent key fails with KeyError and leaves contents
\* and order unchanged; on a present key it returns the stored value and
\* makes the key the most recently touched entry, the key set unchanged.
C9_Get ==
    last.op = "get" =>
        IF last.key \notin KeysOf(last.before)
        THEN ~last.ok /\ cache = last.before
        ELSE /\ last.ok
             /\ last.value = value_of(last.before, last.key)
             /\ cache[Len(cache)] = <<last.key, last.value>>
             /\ KeysOf(cache) = KeysOf(last.before)
             /\ Len(cache) = Len(last.before)

C9_Witness ==
    /\ last.op = "get"
    /\ last.ok
    /\ Len(last.before) >= 2
    /\ last.before[Len(last.before)][1] # last.key
    /\ cache[Len(cache)][1] = last.key

\* C10: contains(key) changes nothing: keys, values and recency order are
\* the same before and after the call, for present and absent keys.
C10_ContainsPure ==
    last.op = "contains" =>
        /\ cache = last.before
        /\ last.value = (IF last.key \in KeysOf(cache) THEN 1 ELSE 0)

C10_Witness ==
    /\ last.op = "contains"
    /\ last.value = 1
    /\ Len(cache) >= 2
    /\ cache[Len(cache)][1] # last.key


\* position of the last touch of key in the order of touches
TouchRank(key) == CHOOSE i \in 1..Len(touched) : touched[i] = key

Evicted == KeysOf(last.before) \ KeysOf(cache)

\* C11: whenever a put of a new key evicts an entry, the evicted entry is
\* the one whose last touch (put or successful get) is the oldest among
\* the entries the cache held.
C11_EvictsLeastRecentlyTouched ==
    [][(last'.op = "put" /\ last'.key \notin KeysOf(cache)
           /\ KeysOf(cache) \ KeysOf(cache') # {}) =>
          \E k \in KeysOf(cache) :
              /\ KeysOf(cache) \ KeysOf(cache') = {k}
              /\ \A j \in KeysOf(cache) \ {k} : TouchRank(k) < TouchRank(j)]_vars

\* a put of a new key into a full cache of two or more entries evicted
\* one of them, and the others stayed
C11_Witness ==
    /\ last.op = "put"
    /\ last.key \notin KeysOf(last.before)
    /\ max_size >= 2
    /\ Cardinality(Evicted) = 1
    /\ KeysOf(cache) \cap KeysOf(last.before) # {}

\* ----------------------------------------------- claims: the normalizer
Validated == validation.called

Payload == validation.webhook_data.items

IsDict == validation.webhook_data.type = "dict"

Without(items, keys) == [k \in PayloadKeys |-> IF k \in keys THEN Absent ELSE items[k]]

\* the keys only the other shape reads
OtherShapeKeys(channel, shape) ==
    CASE channel = "sms" /\ shape = "unified" -> ProviderSmsKeys
      [] channel = "sms" /\ shape = "provider" -> UnifiedSmsKeys
      [] channel = "email" /\ shape = "provider" ->
            UnifiedEmailKeys \ ProviderEmailKeys
      [] channel = "email" /\ shape = "unified" ->
            ProviderEmailKeys \ UnifiedEmailKeys

\* the shape the precedence of the channel selects, from key presence alone
SelectedShape(channel, items) ==
    CASE channel = "sms" /\ items["from"] # Absent -> "unified"
      [] channel = "sms" /\ items["From"] # Absent -> "provider"
      [] channel = "email" /\ items["from_email"] # Absent -> "provider"
      [] channel = "email" /\ items["from"] # Absent -> "unified"
      [] OTHER -> "none"

\* the key of the selected shape a required field is read from
FieldKey(channel, shape, field) ==
    CASE field = "from_address" ->
            IF shape = "unified" THEN "from"
            ELSE IF channel = "sms" THEN "From" ELSE "from_email"
      [] field = "to_address" ->
            IF shape = "unified" THEN "to"
            ELSE IF channel = "sms" THEN "To" ELSE "to_email"
      [] field = "body" ->
            IF shape = "unified" THEN "body"
            ELSE IF channel = "sms" THEN "Body" ELSE "content"
      [] field = "provider_message_id" ->
            IF shape = "unified"
            THEN (IF channel = "sms" THEN "messaging_provider_id" ELSE "xillio_id")
            ELSE IF channel = "sms" THEN "MessageSid" ELSE "x_message_id"

\* C18: format detection depends only on key presence, in a fixed
\* precedence: an SMS payload with key 'from' is read as the unified shape
\* even if 'From' is present, an email payload with 'from_email' as the
\* provider shape even if 'from' is present, and the fields of the shape
\* not selected are ignored.
C18_DetectionPrecedence ==
    (Validated /\ IsDict) =>
        LET shape == SelectedShape(validation.channel, Payload)
            record == validation.result.record
        IN shape # "none" =>
              /\ validation.result =
                    validate_webhook_payload(validation.channel,
                        Dict(Without(Payload,
                                     OtherShapeKeys(validation.channel, shape))))
              /\ validation.result.ok =>
                    /\ record.from_address =
                          Payload[FieldKey(validation.channel, shape,
                                           "from_address")][2]
                    /\ record.provider_message_id =
                          Payload[FieldKey(validation.channel, shape,
                                           "provider_message_id")][2]

\* both detection keys are present with different values, and the record
\* carries the one of the shape that takes precedence
C18_Witness ==
    /\ Validated /\ IsDict /\ validation.result.ok
    /\ \/ /\ validation.channel = "sms"
          /\ Payload["from"] # Absent /\ Payload["From"] # Absent
          /\ Payload["from"] # Payload["From"]
          /\ validation.result.record.from_address = Payload["from"][2]
       \/ /\ validation.channel = "email"
          /\ Payload["from"] # Absent /\ Payload["from_email"] # Absent
          /\ Payload["from"] # Payload["from_email"]
          /\ validation.result.record.from_address = Payload["from_email"][2]

\* the validation errors of the services, by the kinds of the contract
MalformedPayload(result) ==
    /\ ~result.ok /\ result.type = "ValueError"
    /\ result.message = "Webhook payload must be a dictionary"

UnrecognizedFormat(result) ==
    /\ ~result.ok /\ result.type = "ValueError"
    /\ result.message = "Invalid webhook format: missing required fields"

MissingField(result, field) ==
    /\ ~result.ok /\ result.type = "ValueError"
    /\ result.message = "Missing required field: " \o field

\* C19: a payload that is not a mapping fails with MalformedPayload, a
\* mapping with neither detection key of the channel fails with
\* UnrecognizedFormat, and no canonical record is produced.
C19_RejectsBadShape ==
    Validated =>
        /\ ~IsDict =>
              /\ MalformedPayload(validation.result)
              /\ validation.result.record = NoRecord
        /\ (IsDict /\ SelectedShape(validation.channel, Payload) = "none") =>
              /\ UnrecognizedFormat(validation.result)
              /\ validation.result.record = NoRecord

\* {foo: bar} was rejected as an unrecognized format
C19_Witness ==
    /\ Validated /\ IsDict
    /\ Payload["foo"] = Str("bar")
    /\ \A k \in PayloadKeys \ {"foo"} : Payload[k] = Absent
    /\ UnrecognizedFormat(validation.result)

RequiredFields == {"from_address", "to_address", "body", "provider_message_id"}

NonEmptyStr(v) == v[1] = "str" /\ v[2] # ""

MissingOrEmpty(v) == v \in {Absent, Str("")}

\* the payload gives no value for a required field of the selected shape
NotGiven(channel, shape, items, field) ==
    IF channel = "email" /\ shape = "provider" /\ field = "body"
    THEN \A k \in {"subject", "content", "html_content"} : MissingOrEmpty(items[k])
    ELSE MissingOrEmpty(items[FieldKey(channel, shape, field)])

\* the payload gives a non-empty string for a required field
Given(channel, shape, items, field) ==
    IF channel = "email" /\ shape = "provider" /\ field = "body"
    THEN \/ NonEmptyStr(items["html_content"])
         \/ /\ ~truthy(items["html_content"])
            /\ NonEmptyStr(items["content"])
    ELSE NonEmptyStr(items[FieldKey(channel, shape, field)])

InvalidProviderType(result, value) ==
    /\ ~result.ok /\ result.type = "ValueError"
    /\ result.message = "Invalid provider_type: " \o py_str(value)[2]
                            \o ". Must be 'sms' or 'mms'"

\* a unified SMS payload that gives the four required fields
UnifiedSmsGiven ==
    /\ Validated /\ IsDict /\ validation.channel = "sms"
    /\ SelectedShape("sms", Payload) = "unified"
    /\ \A f \in RequiredFields : Given("sms", "unified", Payload, f)

\* the statement of C21 as claimed: an absent, empty or other 'type' of
\* a unified SMS payload fails with InvalidProviderType
C21_AsClaimed ==
    (UnifiedSmsGiven /\ Payload["type"] \notin {Str("sms"), Str("mms")}) =>
        InvalidProviderType(validation.result, Payload["type"])

\* C21: for the unified SMS/MMS shape an absent or empty 'type' fails
\* with MissingField(provider_type), any other value than 'sms' or 'mms'
\* fails with InvalidProviderType, and every record the SMS/MMS
\* normalizer returns has provider_type sms or mms.
C21_ProviderType ==
    /\ UnifiedSmsGiven =>
          IF MissingOrEmpty(Payload["type"])
          THEN MissingField(validation.result, "provider_type")
          ELSE IF Payload["type"] \notin {Str("sms"), Str("mms")}
          THEN InvalidProviderType(validation.result, Payload["type"])
          ELSE validation.result.ok =>
                  validation.result.record.provider_type = Payload["type"][2]
    /\ (Validated /\ validation.channel = "sms" /\ validation.result.ok) =>
          validation.result.record.provider_type \in {"sms", "mms"}

\* a unified SMS payload of type fax was rejected for its type
C21_Witness ==
    /\ UnifiedSmsGiven
    /\ Payload["type"] = Str("fax")
    /\ InvalidProviderType(validation.result, Str("fax"))

\* the key the selected shape reads the timestamp from
TimestampKey(channel, shape) ==
    IF channel = "sms" /\ shape = "provider" THEN "Timestamp" ELSE "timestamp"

\* the value parses as an ISO-8601 timestamp, a Z suffix read as +00:00
ParsesAsIso(v) == v[1] = "str" /\ replace_Z(v[2]) \in IsoFormat

InvalidTimestamp(result, value) ==
    /\ ~result.ok /\ result.type = "ValueError"
    /\ result.message = "Invalid timestamp format: " \o value[2]

\* C22: a timestamp that is provided and does not parse as ISO-8601
\* fails with InvalidTimestamp, a validation error, whatever the malformed
\* value is; only an absent timestamp defaults to the current time.
C22_InvalidTimestamp ==
    (Validated /\ IsDict) =>
        LET channel == validation.channel
            shape == SelectedShape(channel, Payload)
            key == TimestampKey(channel, shape)
            otherwise == validate_webhook_payload(channel,
                                                  Dict(Without(Payload, {key})))
        IN (shape # "none" /\ otherwise.ok) =>
              IF Payload[key] = Absent
              THEN validation.result.ok
                      /\ validation.result.record.timestamp = "now"
              ELSE IF ParsesAsIso(Payload[key])
              THEN validation.result.ok
                      /\ validation.result.record.timestamp # "now"
              ELSE InvalidTimestamp(validation.result, Payload[key])

\* the checks of the SMS/MMS validation, in the order of the claim
SmsChecks ==
    <<"mapping", "format", "from_address", "to_address", "body",
      "provider_message_id", "provider_type presence", "provider_type value",
      "timestamp">>

\* the payload does not pass the check
SmsCheckFails(check, webhook_data) ==
    LET items == webhook_data.items
        shape == SelectedShape("sms", items)
    IN IF check = "mapping" THEN webhook_data.type # "dict"
       ELSE IF webhook_data.type # "dict" THEN FALSE
       ELSE IF check = "format" THEN shape = "none"
       ELSE IF shape = "none" THEN FALSE
       ELSE IF check \in RequiredFields
       THEN MissingOrEmpty(items[FieldKey("sms", shape, check)])
       ELSE IF check = "provider_type presence"
       THEN shape = "unified" /\ MissingOrEmpty(items["type"])
       ELSE IF check = "provider_type value"
       THEN shape = "unified" /\ items["type"] \notin {Str("sms"), Str("mms")}
       ELSE /\ truthy(items[TimestampKey("sms", shape)])
            /\ ~ParsesAsIso(items[TimestampKey("sms", shape)])

\* the result is the error of the check
SmsCheckError(check, webhook_data, result) ==
    LET items == webhook_data.items
    IN CASE check = "mapping" -> MalformedPayload(result)
         [] check = "format" -> UnrecognizedFormat(result)
         [] check \in RequiredFields -> MissingField(result, check)
         [] check = "provider_type presence" ->
               MissingField(result, "provider_type")
         [] check = "provider_type value" ->
               InvalidProviderType(result, items["type"])
         [] check = "timestamp" ->
               /\ ~result.ok
               /\ \/ result.type = "AttributeError"
                  \/ InvalidTimestamp(result,
                         items[TimestampKey("sms", SelectedShape("sms", items))])

Webhooks == {i \in Calls : history[i].op = "webhook"}

Sends == {i \in Calls : history[i].op = "send"}

PipelineTasks == {t \in Running : t.op \in {"webhook", "send"}}

\* C12: normalization runs before any write: an inbound webhook whose
\* payload fails validation leaves storage unchanged - no conversation, no
\* participant and no message is created for that request.
C12_ValidationBeforeWrites ==
    [][Len(history') > Len(history) =>
          LET e == history'[Len(history')]
          IN (e.op = "webhook"
                /\ ~sms_validate_webhook_payload(e.request.webhook_data).ok) =>
                /\ e.error
                /\ ~e.created /\ e.wrote = 0 /\ e.message = None
                /\ e.started = Len(history)
                /\ conversations' = conversations
                /\ participants' = participants
                /\ messages' = messages]_vars

\* a webhook with an unparseable timestamp was rejected, and storage is
\* what it was before
C12_Witness ==
    \E i \in Webhooks :
        /\ history[i].raised.message = "Invalid timestamp format: not-a-date"
        /\ history[i].error /\ ~history[i].created
        /\ conversations = {1}
        /\ Cardinality(participants) = 2
        /\ messages = StoredMessages

StepsOf(op) ==
    IF op = "webhook" THEN <<"validate", "resolve", "persist", "respond">>
    ELSE <<"resolve", "send", "extract", "persist", "respond">>

IsPrefix(a, b) == Len(a) <= Len(b) /\ SubSeq(b, 1, Len(a)) = a

\* find-or-create has returned the conversation of the task
ConversationResolved(t) ==
    /\ t.conversation \in conversations
    /\ Range(t.participants) \subseteq AddressSet(participants, t.conversation)

\* C13: within one request the steps run strictly in order, each after
\* the previous one succeeded (inbound: normalize, find-or-create,
\* persist, respond; outbound: find-or-create, provider send, extract,
\* persist, respond); no message is persisted before its conversation is
\* resolved, no outbound message before the provider responded.
C13_StepsInOrder ==
    /\ \A i \in Webhooks \cup Sends :
          /\ IsPrefix(history[i].steps, StepsOf(history[i].op))
          /\ history[i].error <=> history[i].steps # StepsOf(history[i].op)
          /\ history[i].error <=> history[i].message = None
    /\ \A t \in PipelineTasks :
          /\ IsPrefix(t.steps, StepsOf(t.op))
          /\ t.message = None
          /\ t.pc = "create_inbound_message" =>
                /\ t.steps = <<"validate", "resolve">>
                /\ ConversationResolved(t)
          /\ t.pc = "send_message" =>
                /\ t.steps = <<"resolve">>
                /\ ConversationResolved(t)
          /\ t.pc = "create_message" =>
                /\ t.steps = <<"resolve", "send", "extract">>
                /\ ConversationResolved(t)
                /\ t.calls = 1 /\ t.provider_response.error = NoError
          /\ t.pc \notin {"create_inbound_message", "send_message",
                          "create_message"} =>
                t.steps \in {<<>>, <<"validate">>}
    /\ \A m \in messages : m.conversation_id \in conversations

\* an outbound request ran all its steps and its message is stored
C13_Witness ==
    \E i \in Sends :
        /\ ~history[i].error
        /\ history[i].steps = StepsOf("send")
        /\ history[i].calls = 1
        /\ \E m \in messages : m.id = history[i].message
                                  /\ m.direction = "outbound"

\* C14: an outbound send makes exactly one provider call and never
\* retries; on a provider failure the same error is raised again and no
\* message is persisted.
C14_OneProviderCall ==
    /\ \A t \in PipelineTasks : t.calls <= 1
    /\ \A i \in Sends :
          /\ history[i].calls <= 1
          /\ ~history[i].error => history[i].calls = 1
          /\ history[i].provider_response.error # NoError =>
                /\ history[i].error
                /\ history[i].calls = 1
                /\ history[i].raised.type = history[i].provider_response.error
                /\ history[i].message = None
    /\ Cardinality({m \in messages : m.direction = "outbound"}) =
          Cardinality({i \in Sends : ~history[i].error})

\* the provider answered 429: the request failed with that error after
\* one call, and nothing was stored
C14_Witness ==
    \E i \in Sends :
        /\ history[i].provider_response.error = "HTTPStatusError 429"
        /\ history[i].raised.type = "HTTPStatusError 429"
        /\ history[i].calls = 1
        /\ messages = StoredMessages

\* C15: at the webhook boundary every validation failure yields a 400
\* response carrying the validation message, and every other failure a
\* 500 response whose body is the generic 'Internal server error'.
C15_WebhookErrorResponses ==
    \A i \in Webhooks :
        history[i].error =>
            IF history[i].steps = <<"validate">>
            THEN /\ history[i].response.status_code = 400
                 /\ history[i].response.detail = history[i].raised.message
            ELSE history[i].response = Http(500, "Internal server error")

\* C16: every persisted message has a status in {pending, sent,
\* delivered, failed}, whatever status string the provider returned.
C16_StatusInEnum == \A m \in messages : m.status \in MessageStatuses

RecognizedStatuses ==
    {"queued", "sending", "sent", "delivered", "undelivered", "failed",
     "pending", "processed", "dropped", "deferred", "bounce", "blocked"}

\* the provider answered with a status no table knows, or with none
C16_Witness ==
    \E i \in Sends :
        /\ history[i].calls = 1
        /\ history[i].provider_response.error = NoError
        /\ history[i].provider_response.status[2] \notin RecognizedStatuses
        /\ history[i].error

PipelineSuccesses == {i \in Webhooks \cup Sends : ~history[i].error}

\* C17: messages are append-only: every successfully completed request
\* adds exactly one message, a failing request adds none, and no
\* operation deletes or changes a message once it is stored.
C17_AppendOnly ==
    /\ [](/\ StoredMessages \subseteq messages
          /\ Cardinality(messages) =
                Cardinality(StoredMessages) + Cardinality(PipelineSuccesses)
          /\ \A i \in PipelineSuccesses :
                /\ \E m \in messages \ StoredMessages : m.id = history[i].message
                /\ \A j \in PipelineSuccesses :
                      history[i].message = history[j].message => i = j
          /\ \A i \in (Webhooks \cup Sends) \ PipelineSuccesses :
                history[i].message = None)
    /\ [][/\ messages \subseteq messages'
          /\ Cardinality(messages') <= Cardinality(messages) + 1]_vars

\* a request completed and its one message joined the stored one
C17_Witness ==
    /\ PipelineSuccesses # {}
    /\ Cardinality(messages) = Cardinality(StoredMessages) + 1
    /\ StoredMessages \subseteq messages

\* the status mapping tables of the contract, on the status of a response
StatusTable(provider, status) ==
    IF status[1] # "str" THEN "unknown"
    ELSE IF provider = "email"
    THEN CASE status[2] \in {"pending", "deferred"} -> "pending"
           [] status[2] = "processed" -> "sent"
           [] status[2] = "delivered" -> "delivered"
           [] status[2] \in {"dropped", "bounce", "blocked"} -> "failed"
           [] OTHER -> "unknown"
    ELSE CASE status[2] \in {"queued", "sending"} -> "pending"
           [] status[2] = "sent" -> "sent"
           [] status[2] = "delivered" -> "delivered"
           [] status[2] \in {"undelivered", "failed"} -> "failed"
           [] OTHER -> "unknown"

\* the sends the provider answered with a response body
Answered == {i \in Sends : history[i].provider_response.error = NoError
                              /\ history[i].calls = 1}

\* C23: extract_status reproduces the mapping tables for every response:
\* each listed provider status gives its canonical status, any other or
\* missing status gives unknown, and the result is always one of pending,
\* sent, delivered, failed, unknown.
C23_StatusMapping ==
    \A i \in Answered :
        LET provider == get_provider_for_request(history[i].request)
            status == extract_status(provider, history[i].provider_response)
        IN /\ status = StatusTable(provider, history[i].provider_response.status)
           /\ status \in MessageStatuses \cup {"unknown"}
           /\ ~history[i].error =>
                 \E m \in messages : /\ m.id = history[i].message
                                      /\ m.status = status

\* the email provider answered bounce and the message is stored as failed
C23_Witness ==
    \E i \in Answered :
        /\ get_provider_for_request(history[i].request) = "email"
        /\ history[i].provider_response.status = Str("bounce")
        /\ \E m \in messages : m.id = history[i].message /\ m.status = "failed"

\* the sends whose provider call was made
Called == {i \in Sends : history[i].calls = 1}

\* C24: the provider adapter of an outbound request is chosen from the
\* recipient address alone - the email adapter iff to_address contains
\* '@', else the SMS/MMS adapter - whatever the sender address, the
\* attachments and the route (/sms or /email); the persisted provider_type
\* is email for the former, else mms iff attachments is non-empty, else sms.
C24_ProviderByRecipient ==
    /\ \A i \in Called :
          LET request == history[i].request
              email == contains_at(request.to_address)
          IN /\ history[i].provider_response.provider =
                    (IF email THEN "email" ELSE "sms")
             /\ ~history[i].error =>
                   \E m \in messages :
                       /\ m.id = history[i].message
                       /\ m.provider_type =
                             (IF email THEN "email"
                              ELSE IF request.attachments = MediaList THEN "mms"
                              ELSE "sms")
    /\ \A i \in Called, j \in Called :
          history[i].request.to_address = history[j].request.to_address =>
              history[i].provider_response.provider =
                  history[j].provider_response.provider

\* a request with attachments posted to /email by an email sender for a
\* phone number went to the SMS/MMS adapter and is stored as mms
C24_Witness ==
    \E i \in Called :
        /\ history[i].request.endpoint = "/api/messages/email"
        /\ contains_at(history[i].request.from_address)
        /\ ~contains_at(history[i].request.to_address)
        /\ history[i].request.attachments = MediaList
        /\ history[i].provider_response.provider = "sms"
        /\ \E m \in messages : m.id = history[i].message /\ m.provider_type = "mms"

\* --------------------------------------- claims: conversations at rest
\* the find-or-create calls that returned a conversation
Returned == {i \in Resolves : ~history[i].error}

RowsOf(conversation_id) ==
    {r \in participants : r.conversation_id = conversation_id}

\* C26: once find-or-create has returned a conversation, its stored
\* participant set is non-empty and equals the requested addresses, each
\* stored as email if the address contains '@' and as phone otherwise,
\* and no later operation of any request adds or removes a participant.
C26_ParticipantsFixed ==
    \A i \in Returned :
        LET rows == RowsOf(history[i].conversation)
        IN /\ history[i].conversation \in conversations
           /\ rows # {}
           /\ {r.address : r \in rows} = Range(history[i].participants)
           /\ Cardinality(rows) = Cardinality(Range(history[i].participants))
           /\ \A r \in rows :
                 r.address_type =
                    (IF contains_at(AddressString(r.address)) THEN "email"
                     ELSE "phone")

\* a conversation of a phone number and an email address was returned,
\* and a later request has written participants of its own
C26_Witness ==
    \E i \in Returned, j \in Resolves :
        /\ i < j
        /\ history[i].created
        /\ history[j].wrote >= 1
        /\ \E r1 \in RowsOf(history[i].conversation) :
              \E r2 \in RowsOf(history[i].conversation) :
                  r1.address_type = "phone" /\ r2.address_type = "email"

\* ------------------------------------------ claims: failures and races
\* the requests an await of find-or-create on the database failed
StorageFailures ==
    {i \in Webhooks \cup Sends : history[i].raised.type = "SQLAlchemyError"}

\* C27: a persistence failure at any step of find-or-create (lookup,
\* conversation create, participant add) reaches the caller as a server
\* error, nothing is retried, and the request writes nothing after it: no
\* remaining participant is added, the provider is not called and no
\* message is persisted.
C27_StorageFailurePropagates ==
    /\ \A t \in Running : t.raised = NoException
    /\ \A i \in StorageFailures :
          /\ history[i].error
          /\ history[i].op = "webhook" =>
                history[i].response = Http(500, "Internal server error")
          /\ history[i].calls = 0
          /\ history[i].provider_response = NoResponse
          /\ history[i].message = None
          /\ "resolve" \notin Range(history[i].steps)
          /\ IF history[i].created
             THEN /\ Cardinality(RowsOf(history[i].conversation)) = history[i].wrote
                  /\ \A m \in messages :
                        m.conversation_id # history[i].conversation
             ELSE history[i].wrote = 0

\* the add of the second participant failed: the conversation is left
\* with one participant, and another request has stored its message since
C27_Witness ==
    \E i \in StorageFailures, j \in PipelineSuccesses :
        /\ i < j
        /\ history[i].created
        /\ history[i].wrote = 1
        /\ Cardinality(Range(history[i].participants)) = 2
        /\ history[i].op = "send"
        /\ \E m \in messages : m.id = history[j].message

\* the conversations whose participants are still being created, or were
\* left behind by a request that failed
Creating ==
    {t.conversation : t \in {x \in Running : x.created /\ x.pc \in DatabaseAwaits}}

Orphaned ==
    {history[i].conversation : i \in {j \in StorageFailures : history[j].created}}

\* C28: in every reachable state, whatever the interleaving of concurrent
\* inbound and outbound requests and whatever fails, each stored message
\* refers to a stored conversation whose participant set is exactly
\* {from_address, to_address} of the message, and a conversation whose
\* participants are incomplete or orphaned has no message.
C28_MessagesOnCompleteConversations ==
    /\ \A m \in messages :
          /\ m.conversation_id \in conversations
          /\ AddressSet(participants, m.conversation_id) =
                {AddressOf(m.from_address), AddressOf(m.to_address)}
    /\ \A c \in Creating \cup Orphaned :
          \A m \in messages : m.conversation_id # c

\* an inbound and an outbound request raced: their messages are stored on
\* two conversations of the same two participants
C28_Witness ==
    \E m1 \in messages, m2 \in messages :
        /\ m1.direction = "inbound" /\ m2.direction = "outbound"
        /\ m1.conversation_id # m2.conversation_id
        /\ AddressSet(participants, m1.conversation_id) =
              AddressSet(participants, m2.conversation_id)
        /\ Cardinality(AddressSet(participants, m1.conversation_id)) = 2

\* the stored conversations whose participant set is the given one
CompleteFor(set) == {c \in conversations : AddressSet(participants, c) = set}

\* a request for the set has created the conversation
CreatedFor(set, conversation_id) ==
    \/ \E j \in Calls :
          /\ history[j].created
          /\ history[j].conversation = conversation_id
          /\ Range(history[j].participants) = set
    \/ \E t \in Running :
          /\ t.created
          /\ t.conversation = conversation_id
          /\ Range(t.participants) = set

\* the find-or-create calls for two different addresses that returned
ReturnedPairs ==
    {i \in Returned : Cardinality(Range(history[i].participants)) = 2}

\* C29: once a conversation for {a,b}, a # b, has all its participants
\* stored (its find-or-create has returned), every find-or-create for
\* {a,b} that starts afterwards returns a conversation with exactly that
\* set and creates nothing, so every conversation for {a,b} was created
\* by a request that started before the first one was complete.
C29_DuplicatesBounded ==
    \A i \in ReturnedPairs :
        LET set == Range(history[i].participants)
        IN /\ \A j \in Resolves :
                 (InSequence(i, j) /\ Range(history[j].participants) = set)
                 => /\ ~history[j].error
                    /\ ~history[j].created
                    /\ history[j].wrote = 0
                    /\ history[j].conversation \in CompleteFor(set)
           /\ \A t \in Running :
                 Range(t.participants) = set => t.started < i
           /\ \A c \in CompleteFor(set) : CreatedFor(set, c)

\* a request for {a,b} that started after another had completed the
\* conversation returned that conversation and wrote nothing
C29_Witness ==
    \E i \in ReturnedPairs, j \in Returned :
        /\ InSequence(i, j)
        /\ history[i].created
        /\ Range(history[j].participants) = Range(history[i].participants)
        /\ history[j].conversation = history[i].conversation
        /\ ~history[j].created /\ history[j].wrote = 0
        /\ history[j].started = j - 1

\* ------------------------------------------- claims: simulator cache
\* the answered get-by-id requests of the simulator
SimGets == {i \in DOMAIN history : history[i].op = "get_message"}

\* the sends of the simulator that stored a message
SimPuts ==
    {i \in DOMAIN history : history[i].op = "send_message"
                                /\ history[i].status_code = 200}

\* C30: with the cache shared by concurrently handled send and get
\* requests that switch only at awaits, no get-by-id is suspended between
\* its membership check and its read, the read of a key that passed the
\* check never fails, the cache never exceeds its capacity, and a step
\* that removes an entry removes exactly one, the least recently touched.
C30_CheckThenReadAtomic ==
    /\ [](/\ \A t \in Running : t.pc = "start" /\ ~t.checked
          /\ \A i \in SimGets :
                /\ history[i].checked <=> history[i].status_code = 200
                /\ ~history[i].checked <=> history[i].status_code = 404
                /\ history[i].checked =>
                      history[i].value = history[i].message_sid
          /\ Len(cache) <= max_size
          /\ Cardinality(KeysOf(cache)) = Len(cache))
    /\ [][KeysOf(cache) \ KeysOf(cache') # {} =>
             \E k \in KeysOf(cache) :
                 /\ KeysOf(cache) \ KeysOf(cache') = {k}
                 /\ last'.op = "put"
                 /\ \A j \in KeysOf(cache) \ {k} :
                       TouchRank(k) < TouchRank(j)]_vars

\* a get-by-id arrived, a send then stored a message and evicted another
\* from the full cache, and the get then found its key and read it
C30_Witness ==
    \E i \in SimGets, j \in SimPuts :
        /\ history[i].started < j /\ j < i
        /\ history[i].checked
        /\ history[i].status_code = 200
        /\ Len(cache) = max_size
        /\ \E k \in SimPuts : history[k].sid \notin KeysOf(cache)

=============================================================================
